---- MODULE Spec2Model ----
(***************************************************************************)
(* A model of phelia-jackett: the Torznab client (torznab.py) and the      *)
(* plugin lifecycle that probes it (__init__.py).                          *)
(*                                                                         *)
(* Python strings are sequences of one-character strings.  "SUP2" stands   *)
(* for U+00B2 (superscript two), a character str.isdigit() accepts and     *)
(* int() rejects.  An optional value (None, a missing attribute, a missing *)
(* child element) is Absent; a present one is Some(v).                     *)
(***************************************************************************)
EXTENDS Integers, Sequences, FiniteSets, TLC

VARIABLES
    feed,       \* the document the indexer serves for t=search: elements in document order
    calls,      \* per caller: the caps_ok / search coroutine it runs, and where that stands
    sessions,   \* the httpx.AsyncClient sessions that are open: session id -> owning caller
    opened,     \* how many sessions have been opened so far
    requests,   \* how many HTTP GETs have been issued so far
    item,       \* item mapping: the <item> element handed to the loop body
    mapped,     \* item mapping: what the loop body made of it
    settings,   \* plugin: the namespaced settings in the host's store
    ctx,        \* plugin: what the host's ctx dict exposes
    plugin,     \* plugin: the lifecycle hook that is running, and on_enable's locals
    provider,   \* plugin: how often register_search_provider has been invoked
    notices,    \* plugin: the notifications handed to ctx["notify"], oldest first
    mounts      \* plugin: what is registered with the host (route, settings panel)

vars == <<feed, calls, sessions, opened, requests, item, mapped,
          settings, ctx, plugin, provider, notices, mounts>>

clientVars == <<feed, calls, sessions, opened, requests>>
itemVars   == <<item, mapped>>
pluginVars == <<settings, ctx, plugin, provider, notices, mounts>>

----------------------------------------------------------------------------
(* Bounds *)

\* Longest attribute value / element text drawn as an input.
MaxStrLen == 2
\* Most elements in a served document.
MaxItems == 2
\* Most <attr> children of one drawn item.
MaxAttrs == 2
\* Most sessions opened in one behaviour.
MaxSessions == 3
\* Most lifecycle hooks invoked in one behaviour.
MaxHooks == 4

----------------------------------------------------------------------------
(* Optional values and strings *)

Absent == [some |-> FALSE]
Some(v) == [some |-> TRUE, v |-> v]

\* All strings over alphabet a of length at most n.
StringsUpTo(a, n) == UNION {[1..k -> a] : k \in 0..n}

\* Characters of attribute values that are meant to be numbers.
NumAlphabet == {"5", "-", " ", "x", "SUP2", "_"}
\* Characters of element texts and URLs.
TextAlphabet == {" ", "m"}

\* str.isspace() on one character.
IsSpace(c) == c = " "

\* Characters int() reads as a decimal digit (Unicode category Nd).
IsDecimalChar(c) == c = "5"

\* Characters str.isdigit() accepts: the decimal digits and the other
\* characters with Numeric_Type=Digit, such as U+00B2.
IsDigitChar(c) == c \in {"5", "SUP2"}

DigitValue(c) == IF c = "5" THEN 5 ELSE 0

\* str.strip(): leading and trailing whitespace removed.
RECURSIVE LStrip(_)
LStrip(s) == IF s # <<>> /\ IsSpace(Head(s)) THEN LStrip(Tail(s)) ELSE s

RECURSIVE RStrip(_)
RStrip(s) ==
    IF s # <<>> /\ IsSpace(s[Len(s)]) THEN RStrip(SubSeq(s, 1, Len(s) - 1)) ELSE s

Strip(s) == RStrip(LStrip(s))

\* str.isdigit(): non-empty and every character a digit character.
IsDigit(s) == s # <<>> /\ \A i \in 1..Len(s) : IsDigitChar(s[i])

\* The digits-and-underscores part of an int() literal: digits, with single
\* underscores allowed between digits only.
ValidDigits(b) ==
    /\ b # <<>>
    /\ \A i \in 1..Len(b) : IsDecimalChar(b[i]) \/ b[i] = "_"
    /\ b[1] # "_" /\ b[Len(b)] # "_"
    /\ \A i \in 1..(Len(b) - 1) : ~(b[i] = "_" /\ b[i + 1] = "_")

RECURSIVE DigitsValue(_, _)
DigitsValue(b, acc) ==
    IF b = <<>> THEN acc
    ELSE IF Head(b) = "_" THEN DigitsValue(Tail(b), acc)
    ELSE DigitsValue(Tail(b), 10 * acc + DigitValue(Head(b)))

\* int(s) for a str: whitespace stripped, an optional sign, then the digits.
\* [ok |-> FALSE] is ValueError.
IntParse(s) ==
    LET t == Strip(s)
        signed == t # <<>> /\ Head(t) \in {"+", "-"}
        b == IF signed THEN Tail(t) ELSE t
    IN  IF ValidDigits(b)
        THEN [ok |-> TRUE,
              val |-> IF signed /\ Head(t) = "-" THEN 0 - DigitsValue(b, 0)
                      ELSE DigitsValue(b, 0)]
        ELSE [ok |-> FALSE, val |-> 0]

----------------------------------------------------------------------------
(* The XML the client reads *)

\* An <item> element, as far as search looks at it:
\*   title, link, pubDate  the text of the first child of that name (findtext):
\*                         Absent when there is no such child
\*   enclosures            the <enclosure> children in document order, each
\*                         with its url and length attributes
\*   children              the other children in document order, each with its
\*                         tag and its name and value attributes
LocalName(tag) ==
    CASE tag = "attr" -> "attr"
      [] tag = "{torznab}attr" -> "attr"
      [] OTHER -> "other"

\* item.find("enclosure"): the first enclosure child, or None.
FindEnclosure(it) ==
    IF it.enclosures = <<>> THEN Absent ELSE Some(Head(it.enclosures))

\* item.findall("{*}attr"): the children whose local name is attr, whatever
\* their namespace, in document order.
RECURSIVE FindAllAttr(_)
FindAllAttr(children) ==
    IF children = <<>> THEN <<>>
    ELSE IF LocalName(Head(children).tag) = "attr"
         THEN <<Head(children)>> \o FindAllAttr(Tail(children))
         ELSE FindAllAttr(Tail(children))

\* (x or ""): None and "" both give "".
OrEmpty(opt) == IF opt.some THEN opt.v ELSE <<>>

\* Lines 58-60: size is set when length is truthy and length.isdigit();
\* int(length) is evaluated outside any try.
SizeOf(enclosure) ==
    IF ~enclosure.some THEN [raised |-> FALSE, size |-> Absent]
    ELSE LET length == enclosure.v.length
         IN  IF length.some /\ length.v # <<>> /\ IsDigit(length.v)
             THEN IF IntParse(length.v).ok
                  THEN [raised |-> FALSE, size |-> Some(IntParse(length.v).val)]
                  ELSE [raised |-> TRUE, size |-> Absent]
             ELSE [raised |-> FALSE, size |-> Absent]

\* A plausible slip: the text of <link> wins over the enclosure's url.
LinkOfPreferText(enclosure, link) ==
    IF link # <<>> THEN link
    ELSE IF enclosure.some /\ enclosure.v.url.some THEN enclosure.v.url.v
    ELSE link

\* Line 62: link = enclosure.attrib.get("url", link) or link.
LinkOf(enclosure, link) ==
    IF ~enclosure.some THEN link
    ELSE LET got == IF enclosure.v.url.some THEN enclosure.v.url.v ELSE link
         IN  IF got # <<>> THEN got ELSE link

\* A plausible slip: a value that does not parse resets seeders to None.
RECURSIVE SeedersLoopReset(_, _)
SeedersLoopReset(attrs, seeders) ==
    IF attrs = <<>> THEN seeders
    ELSE LET attr == Head(attrs)
             parsed == IntParse(OrEmpty(attr.value))
         IN  IF attr.name = Some("seeders")
             THEN SeedersLoopReset(Tail(attrs),
                                   IF parsed.ok THEN Some(parsed.val) ELSE Absent)
             ELSE SeedersLoopReset(Tail(attrs), seeders)

\* Lines 66-71: each attr named seeders whose value int() accepts overwrites
\* seeders; one whose value it rejects is passed over (except: pass).
RECURSIVE SeedersLoop(_, _)
SeedersLoop(attrs, seeders) ==
    IF attrs = <<>> THEN seeders
    ELSE LET attr == Head(attrs)
             parsed == IntParse(OrEmpty(attr.value))
         IN  IF attr.name = Some("seeders") /\ parsed.ok
             THEN SeedersLoop(Tail(attrs), Some(parsed.val))
             ELSE SeedersLoop(Tail(attrs), seeders)

\* The body of the for loop, lines 51-84: the record appended for one item,
\* or raised when int(length) raises ValueError.
MapItem(it) ==
    LET title == Strip(OrEmpty(it.title))
        link == Strip(OrEmpty(it.link))
        enclosure == FindEnclosure(it)
        sized == SizeOf(enclosure)
    IN  IF sized.raised THEN [raised |-> TRUE]
        ELSE [raised |-> FALSE,
              rec |-> [title |-> title,
                       link |-> LinkOf(enclosure, link),
                       size_bytes |-> sized.size,
                       seeders |-> SeedersLoop(FindAllAttr(it.children), Absent),
                       pubdate |-> it.pubDate,
                       provider |-> "jackett"]]

\* A plausible slip: each record is put in front of the earlier ones.
RECURSIVE SearchLoopPrepend(_, _)
SearchLoopPrepend(doc, results) ==
    IF doc = <<>> THEN [raised |-> FALSE, results |-> results]
    ELSE IF Head(doc).tag # "item" THEN SearchLoopPrepend(Tail(doc), results)
    ELSE LET m == MapItem(Head(doc))
         IN  IF m.raised THEN [raised |-> TRUE, results |-> <<>>]
             ELSE SearchLoopPrepend(Tail(doc), <<m.rec>> \o results)

\* Lines 50-84: for item in root.iter("item"), in document order; an
\* exception in the body ends the loop and the call.
RECURSIVE SearchLoop(_, _)
SearchLoop(doc, results) ==
    IF doc = <<>> THEN [raised |-> FALSE, results |-> results]
    ELSE IF Head(doc).tag # "item" THEN SearchLoop(Tail(doc), results)
    ELSE LET m == MapItem(Head(doc))
         IN  IF m.raised THEN [raised |-> TRUE, results |-> <<>>]
             ELSE SearchLoop(Tail(doc), Append(results, m.rec))

----------------------------------------------------------------------------
(* Inputs *)

Texts == StringsUpTo(TextAlphabet, MaxStrLen)
OptTexts == {Absent} \cup {Some(t) : t \in Texts}
NumStrings == StringsUpTo(NumAlphabet, MaxStrLen)
OptNums == {Absent} \cup {Some(n) : n \in NumStrings}

BaseItem ==
    [tag |-> "item", title |-> Some(<<"m">>), link |-> Absent,
     enclosures |-> <<>>, children |-> <<>>, pubDate |-> Absent]

Attr(tag, name, value) == [tag |-> tag, name |-> name, value |-> value]
Enclosure(url, length) == [url |-> url, length |-> length]

\* Items that differ in <link> and in the enclosure's url and length.
LinkItems ==
    {[BaseItem EXCEPT !.link = l] : l \in OptTexts}
    \cup {[BaseItem EXCEPT !.link = l, !.enclosures = <<Enclosure(u, n)>>] :
            l \in OptTexts, u \in OptTexts, n \in OptNums}

\* Items with one child that may be a Torznab attr.
OneAttrItems ==
    {[BaseItem EXCEPT !.children = <<Attr(t, n, v)>>] :
        t \in {"attr", "{torznab}attr", "{torznab}other"},
        n \in {Absent, Some("seeders"), Some("peers")},
        v \in OptNums}

SampleAttrs ==
    {Attr("{torznab}attr", Some("seeders"), Some(<<"5">>)),
     Attr("attr", Some("seeders"), Some(<<"5", "5">>)),
     Attr("{torznab}attr", Some("seeders"), Some(<<"x">>)),
     Attr("{torznab}attr", Some("seeders"), Absent),
     Attr("{torznab}attr", Some("peers"), Some(<<"5", "5">>)),
     Attr("{torznab}other", Some("seeders"), Some(<<"5", "5">>))}

\* Items with several children.
ManyAttrItems ==
    {[BaseItem EXCEPT !.children = cs] :
        cs \in UNION {[1..k -> SampleAttrs] : k \in 2..MaxAttrs}}

\* Items that differ in <title> and <pubDate>.
TitleItems ==
    {[BaseItem EXCEPT !.title = t, !.pubDate = d] : t \in OptTexts, d \in OptTexts}

SampleEnclosures ==
    {Enclosure(Absent, Absent),
     Enclosure(Some(<<>>), Some(<<"x">>)),
     Enclosure(Some(<<"m">>), Some(<<"5">>))}

\* Items with two <enclosure> children.
TwoEnclosureItems ==
    {[BaseItem EXCEPT !.link = Some(<<"m", " ">>), !.enclosures = <<e1, e2>>] :
        e1 \in SampleEnclosures, e2 \in SampleEnclosures}

Items ==
    LinkItems \cup OneAttrItems \cup ManyAttrItems \cup TitleItems
        \cup TwoEnclosureItems

\* The elements the served documents are made of: an item with an enclosure
\* and a seeders attr, one with a link and no enclosure, one whose length is
\* U+00B2, and an element that is no item.
SampleElements ==
    {[BaseItem EXCEPT !.enclosures = <<Enclosure(Some(<<"m">>), Some(<<"5">>))>>,
                      !.children = <<Attr("{torznab}attr", Some("seeders"),
                                          Some(<<"5">>))>>],
     [BaseItem EXCEPT !.title = Absent, !.link = Some(<<" ", "m">>)],
     [BaseItem EXCEPT !.enclosures = <<Enclosure(Absent, Some(<<"SUP2">>))>>],
     [BaseItem EXCEPT !.tag = "channel"]}

Documents == UNION {[1..k -> SampleElements] : k \in 0..MaxItems}

\* The body of a well-formed t=caps response.
CapsDocument == <<[BaseItem EXCEPT !.tag = "caps"]>>

Statuses == {200, 204, 301, 500}

\* What comes back from one GET: a transport error (connection refused, DNS
\* failure, timeout), or a status with a body; a body that is not
\* well-formed XML is Absent.
TransportError == [kind |-> "transport"]
HttpResponse(status, body) == [kind |-> "http", status |-> status, body |-> body]

\* query: a dict with or without the key "title", whose value may be None.
Queries ==
    {[present |-> FALSE, value |-> Absent],
     [present |-> TRUE, value |-> Absent],
     [present |-> TRUE, value |-> Some(<<>>)],
     [present |-> TRUE, value |-> Some(<<"m">>)]}

Callers == {"c1", "c2"}

\* What the store may hold for base_url and for api_key: nothing, "", a
\* blank string, and strings with something in them.
SettingValues ==
    {Absent, Some(<<>>), Some(<<" ">>), Some(<<"m">>), Some(<<" ", "m", " ">>)}

----------------------------------------------------------------------------
(* TorznabClient *)

Returned(v) == [kind |-> "returned", value |-> v]
Raised(e) == [kind |-> "raised", error |-> e]
NoOut == [kind |-> "none"]
NoResponse == [kind |-> "none"]
NoQuery == [present |-> FALSE, value |-> Absent]

IdleCall ==
    [op |-> "none", pc |-> "idle", query |-> NoQuery, sess |-> 0,
     resp |-> NoResponse, out |-> NoOut]

\* Line 38: q = query.get("title") or "".
QueryTitle(query) == OrEmpty(IF query.present THEN query.value ELSE Absent)

\* A plausible slip: the guard of line 39 is missing.
NoTitleNever(q) == FALSE

\* Line 39: not q.
NoTitle(q) == q = <<>>

\* Response.raise_for_status() passes for the 2xx statuses only.
IsSuccess(status) == status \in 200..299

\* Lines 23-31, from the moment the GET ends: a transport error leaves
\* http.get as an exception, which nothing in caps_ok catches; a status other
\* than 200 gives False; otherwise the parse decides.
CapsOkBody(resp) ==
    IF resp.kind = "transport" THEN Raised("transport")
    ELSE IF resp.status # 200 THEN Returned(FALSE)
    ELSE IF resp.body.some THEN Returned(TRUE)
    ELSE Returned(FALSE)

\* Lines 46-85, from the moment the GET ends.
SearchBody(resp) ==
    IF resp.kind = "transport" THEN Raised("transport")
    ELSE IF ~IsSuccess(resp.status) THEN Raised("status")
    ELSE IF ~resp.body.some THEN Raised("parse")
    ELSE LET r == SearchLoop(resp.body.v, <<>>)
         IN  IF r.raised THEN Raised("value") ELSE Returned(r.results)

\* What a GET of the call's URL may end in.
Responses(op) ==
    {TransportError}
    \cup {HttpResponse(st, b) :
            st \in Statuses,
            b \in {Absent, Some(IF op = "search" THEN feed ELSE CapsDocument)}}

\* async with httpx.AsyncClient(...) as http: a session of this call's own.
OpenSession(c, op, query) ==
    /\ opened < MaxSessions
    /\ opened' = opened + 1
    /\ sessions' = sessions \cup {[id |-> opened + 1, owner |-> c]}
    /\ calls' = [calls EXCEPT ![c] =
                    [op |-> op, pc |-> "entered", query |-> query,
                     sess |-> opened + 1, resp |-> NoResponse, out |-> NoOut]]

\* caps_ok() is called: lines 21-22.
CapsOkStart(c) ==
    /\ calls[c].pc = "idle"
    /\ OpenSession(c, "caps_ok", NoQuery)
    /\ UNCHANGED <<feed, requests>>

\* search(query) is called: lines 38-45.
SearchStart(c, query) ==
    /\ calls[c].pc = "idle"
    /\ IF NoTitle(QueryTitle(query))
       THEN /\ calls' = [calls EXCEPT ![c] =
                            [op |-> "search", pc |-> "done", query |-> query,
                             sess |-> 0, resp |-> NoResponse,
                             out |-> Returned(<<>>)]]
            /\ UNCHANGED <<sessions, opened>>
       ELSE OpenSession(c, "search", query)
    /\ UNCHANGED <<feed, requests>>

\* await http.get(url): the request goes out and the coroutine waits.
Get(c) ==
    /\ calls[c].pc = "entered"
    /\ requests' = requests + 1
    /\ calls' = [calls EXCEPT ![c].pc = "awaiting"]
    /\ UNCHANGED <<feed, sessions, opened>>

\* The GET ends, and the coroutine runs to the end of the with block.
Respond(c) ==
    /\ calls[c].pc = "awaiting"
    /\ \E resp \in Responses(calls[c].op) :
          calls' = [calls EXCEPT ![c].pc = "exiting",
                                 ![c].resp = resp,
                                 ![c].out = IF calls[c].op = "caps_ok"
                                            THEN CapsOkBody(resp)
                                            ELSE SearchBody(resp)]
    /\ UNCHANGED <<feed, sessions, opened, requests>>

\* A plausible slip: the session is closed by a call at the end of the
\* block instead of by a with statement, so an exception skips it.
ExitOnSuccessOnly(c) ==
    /\ calls[c].pc = "exiting"
    /\ sessions' = IF calls[c].out.kind = "returned"
                   THEN {s \in sessions : s.id # calls[c].sess}
                   ELSE sessions
    /\ calls' = [calls EXCEPT ![c].pc = "done"]
    /\ UNCHANGED <<feed, opened, requests>>

\* The with block is left (AsyncClient.__aexit__), by return or by
\* exception: the session is closed and the call ends.
Exit(c) ==
    /\ calls[c].pc = "exiting"
    /\ sessions' = {s \in sessions : s.id # calls[c].sess}
    /\ calls' = [calls EXCEPT ![c].pc = "done"]
    /\ UNCHANGED <<feed, opened, requests>>

\* The caller has the call's result or exception and may call again.
Collect(c) ==
    /\ calls[c].pc = "done"
    /\ calls' = [calls EXCEPT ![c] = IdleCall]
    /\ UNCHANGED <<feed, sessions, opened, requests>>

----------------------------------------------------------------------------
(* Plugin *)

\* Plugin.DEFAULT_TORZNAB_BASE, and a key found in ServerConfig.json.
DEFAULT_TORZNAB_BASE == <<"m">>
DiscoveredKey == <<"m">>

\* No hook is running; n counts the hooks invoked so far and last names the
\* latest of them.
NoHook == [hook |-> "none", n |-> 0, last |-> "none", base |-> <<>>, api_key |-> <<>>]

\* The caller slot on_enable runs its caps_ok in.
PluginCaller == "c1"

\* _get_settings: the stored settings, or {} when ctx offers no way to read.
GetSettings ==
    IF ctx.settings_get THEN settings
    ELSE [base_url |-> Absent, api_key |-> Absent]

\* _notify: the message goes to ctx["notify"] when that is callable; what
\* notify raises is swallowed.
Notify(message) ==
    notices' = IF ctx.notify THEN Append(notices, message) ELSE notices

\* _register_routes and _register_settings_panel: each registers when ctx
\* offers the callable; a callable that raises registers nothing.
Register(what) == SUBSET {w \in what : ctx[w]}

\* A plausible slip: the API key is not checked.
ConfiguredBaseOnly(base, api_key) == base # <<>>

\* Line 126, negated: base and api_key are both non-empty.
Configured(base, api_key) == base # <<>> /\ api_key # <<>>

\* post_install(ctx), lines 84-115.
PostInstall ==
    /\ plugin.n < MaxHooks
    /\ \E found \in {Absent, Some(DiscoveredKey)} :
          LET got == GetSettings
              base == IF OrEmpty(got.base_url) = <<>>
                      THEN Some(DEFAULT_TORZNAB_BASE) ELSE got.base_url
              key == IF OrEmpty(got.api_key) = <<>> /\ found.some
                     THEN found ELSE got.api_key
          IN  settings' = IF ctx.settings_set
                          THEN [base_url |-> base, api_key |-> key]
                          ELSE settings
    /\ Notify("installed")
    /\ \E done \in Register({"register_route", "register_settings_panel"}) :
          mounts' = mounts \cup done
    /\ plugin' = [plugin EXCEPT !.n = plugin.n + 1, !.last = "post_install"]
    /\ UNCHANGED <<ctx, provider, clientVars>>

\* on_enable(ctx) up to its first await, lines 121-131: without complete
\* settings it notifies and returns; with them it calls caps_ok.
OnEnableStart ==
    /\ plugin.hook = "none"
    /\ plugin.n < MaxHooks
    /\ LET base == Strip(OrEmpty(GetSettings.base_url))
           api_key == Strip(OrEmpty(GetSettings.api_key))
       IN  IF Configured(base, api_key)
           THEN /\ CapsOkStart(PluginCaller)
                /\ plugin' = [hook |-> "on_enable", n |-> plugin.n + 1,
                              last |-> "on_enable",
                              base |-> base, api_key |-> api_key]
                /\ UNCHANGED notices
           ELSE /\ Notify("not_configured")
                /\ plugin' = [plugin EXCEPT !.n = plugin.n + 1,
                                            !.last = "on_enable"]
                /\ UNCHANGED clientVars
    /\ UNCHANGED <<settings, ctx, provider, mounts>>

\* on_enable(ctx) from the end of caps_ok, lines 131-142: an exception out of
\* caps_ok leaves on_enable as it is; False notifies; True registers the
\* provider, notifies and mounts.
OnEnableResume ==
    /\ plugin.hook = "on_enable"
    /\ calls[PluginCaller].pc = "done"
    /\ LET out == calls[PluginCaller].out
       IN  IF out.kind = "raised"
           THEN UNCHANGED <<provider, notices, mounts>>
           ELSE IF ~out.value
           THEN /\ Notify("caps_failed")
                /\ UNCHANGED <<provider, mounts>>
           ELSE /\ provider' = provider + 1
                /\ Notify("enabled")
                /\ \E done \in Register({"register_route", "register_settings_panel"}) :
                      mounts' = mounts \cup done
    /\ plugin' = [NoHook EXCEPT !.n = plugin.n, !.last = plugin.last]
    /\ calls' = [calls EXCEPT ![PluginCaller] = IdleCall]
    /\ UNCHANGED <<settings, ctx, feed, sessions, opened, requests>>

\* on_disable(ctx), lines 144-148.
OnDisable ==
    /\ plugin.n < MaxHooks
    /\ Notify("disabled")
    /\ plugin' = [plugin EXCEPT !.n = plugin.n + 1, !.last = "on_disable"]
    /\ UNCHANGED <<settings, ctx, provider, mounts, clientVars>>

----------------------------------------------------------------------------
(* Specifications *)

NotMapped == [done |-> FALSE]

ClientIdle ==
    /\ calls = [c \in Callers |-> IdleCall]
    /\ sessions = {}
    /\ opened = 0
    /\ requests = 0

ItemIdle ==
    /\ item = BaseItem
    /\ mapped = NotMapped

PluginIdle ==
    /\ settings = [base_url |-> Absent, api_key |-> Absent]
    /\ ctx = [notify |-> TRUE, settings_get |-> TRUE, settings_set |-> TRUE,
              register_route |-> TRUE, register_settings_panel |-> TRUE]
    /\ plugin = NoHook
    /\ provider = 0
    /\ notices = <<>>
    /\ mounts = {}

\* Callers of one client, against an indexer that serves some document.
Init ==
    /\ feed \in Documents
    /\ ClientIdle
    /\ ItemIdle
    /\ PluginIdle

Next ==
    \E c \in Callers :
        \/ CapsOkStart(c) /\ UNCHANGED <<itemVars, pluginVars>>
        \/ (\E query \in Queries : SearchStart(c, query))
              /\ UNCHANGED <<itemVars, pluginVars>>
        \/ Get(c) /\ UNCHANGED <<itemVars, pluginVars>>
        \/ Respond(c) /\ UNCHANGED <<itemVars, pluginVars>>
        \/ Exit(c) /\ UNCHANGED <<itemVars, pluginVars>>
        \/ Collect(c) /\ UNCHANGED <<itemVars, pluginVars>>

Spec == Init /\ [][Next]_vars

\* The loop body of search applied to one item.
MapStep ==
    /\ ~mapped.done
    /\ mapped' = [done |-> TRUE, out |-> MapItem(item)]
    /\ UNCHANGED <<item, clientVars, pluginVars>>

InitItem ==
    /\ item \in Items
    /\ mapped = NotMapped
    /\ feed = <<>>
    /\ ClientIdle
    /\ PluginIdle

NextItem == MapStep

SpecItem == InitItem /\ [][NextItem]_vars

\* A host that holds some settings and offers some of the ctx callables.
InitPlugin ==
    /\ settings \in [base_url : SettingValues, api_key : SettingValues]
    /\ ctx \in [notify : BOOLEAN, settings_get : BOOLEAN, settings_set : BOOLEAN,
                register_route : BOOLEAN, register_settings_panel : BOOLEAN]
    /\ plugin = NoHook
    /\ provider = 0
    /\ notices = <<>>
    /\ mounts = {}
    /\ feed = <<>>
    /\ ClientIdle
    /\ ItemIdle

NextPlugin ==
    \/ PostInstall /\ UNCHANGED itemVars
    \/ OnEnableStart /\ UNCHANGED itemVars
    \/ Get(PluginCaller) /\ UNCHANGED <<itemVars, pluginVars>>
    \/ Respond(PluginCaller) /\ UNCHANGED <<itemVars, pluginVars>>
    \/ Exit(PluginCaller) /\ UNCHANGED <<itemVars, pluginVars>>
    \/ OnEnableResume /\ UNCHANGED itemVars
    \/ OnDisable /\ UNCHANGED itemVars

SpecPlugin == InitPlugin /\ [][NextPlugin]_vars

----------------------------------------------------------------------------
(* Claims *)

\* A call that has its outcome: the with block's body has run.
Finished(c) == calls[c].pc \in {"exiting", "done"}

\* The <item> elements of a document, in document order.
ItemsOf(doc) == SelectSeq(doc, LAMBDA e : e.tag = "item")

\* The query's title is missing, None or the empty string.
TitleMissingOrEmpty(query) ==
    \/ ~query.present
    \/ ~query.value.some
    \/ query.value.v = <<>>

\* C1: caps_ok never raises, and returns true exactly when the status is 200
\* and the body is well-formed XML; every other outcome of the GET, a
\* transport failure included, gives false.
C1_CapsOkAlwaysBoolean ==
    \A c \in Callers :
        (calls[c].op = "caps_ok" /\ Finished(c)) =>
            /\ calls[c].out.kind = "returned"
            /\ calls[c].out.value =
                  (/\ calls[c].resp.kind = "http"
                   /\ calls[c].resp.status = 200
                   /\ calls[c].resp.body.some)

\* The GET of call c ended in a transport error, a non-2xx status or a body
\* that is not well-formed XML.
FailedGet(c) ==
    \/ calls[c].resp.kind = "transport"
    \/ /\ calls[c].resp.kind = "http"
       /\ \/ calls[c].resp.status < 200
          \/ calls[c].resp.status > 299
          \/ ~calls[c].resp.body.some

\* C2: after a GET that ended in a transport error, a non-2xx status or a
\* malformed body, search has raised and returned no sequence, and caps_ok
\* has returned false instead of raising.
C2_SearchRaisesCapsOkFalse ==
    \A c \in Callers :
        (Finished(c) /\ FailedGet(c)) =>
            /\ calls[c].op = "search" => calls[c].out.kind = "raised"
            /\ calls[c].op = "caps_ok" => calls[c].out = Returned(FALSE)

\* C3: a search whose title is missing, None or "" returns the empty
\* sequence in the step that calls it, and that step opens no session and
\* issues no request.
C3_EmptyTitleNoNetwork ==
    [][\A c \in Callers :
          (/\ calls[c].pc = "idle"
           /\ calls'[c].op = "search"
           /\ TitleMissingOrEmpty(calls'[c].query)) =>
              /\ calls'[c].pc = "done"
              /\ calls'[c].out = Returned(<<>>)
              /\ calls'[c].sess = 0
              /\ sessions' = sessions
              /\ opened' = opened
              /\ requests' = requests]_vars

\* C3 witness: after sessions have been opened, one caller's search without
\* a title key and the other's with title None have both returned.
C3_Witness ==
    /\ opened > 0
    /\ calls["c1"].op = "search" /\ calls["c1"].pc = "done"
    /\ ~calls["c1"].query.present
    /\ calls["c2"].op = "search" /\ calls["c2"].pc = "done"
    /\ calls["c2"].query.present /\ ~calls["c2"].query.value.some

\* C4: a call that has returned or raised owns no open session; every open
\* session belongs to one call that is still inside its with block; no two
\* calls hold the same session.
C4_SessionsScoped ==
    /\ \A c \in Callers :
          calls[c].pc \in {"idle", "done"} => \A s \in sessions : s.owner # c
    /\ \A s \in sessions :
          /\ calls[s.owner].pc \in {"entered", "awaiting", "exiting"}
          /\ calls[s.owner].sess = s.id
    /\ \A s, t \in sessions : s.id = t.id => s.owner = t.owner
    /\ \A c, d \in Callers :
          (c # d /\ calls[c].sess # 0) => calls[c].sess # calls[d].sess
    /\ (\A c \in Callers : calls[c].pc \in {"idle", "done"}) => sessions = {}

\* C4 witness: one search has raised while mapping an item and the other
\* call has raised on a transport error; both had a session.
C4_Witness ==
    /\ calls["c1"].pc = "done" /\ calls["c1"].out = Raised("value")
    /\ calls["c2"].pc = "done" /\ calls["c2"].out = Raised("transport")
    /\ calls["c1"].sess # 0 /\ calls["c2"].sess # 0
    /\ sessions = {}

\* The url attribute of the item's (first) enclosure child is present and
\* non-empty.
HasEnclosureUrl(it) ==
    /\ Len(it.enclosures) > 0
    /\ it.enclosures[1].url.some
    /\ it.enclosures[1].url.v # <<>>

\* C5: the record's link is the enclosure's url when that is present and
\* non-empty, and otherwise the trimmed text of <link>, or "" without one.
C5_LinkPrefersEnclosureUrl ==
    (mapped.done /\ ~mapped.out.raised) =>
        mapped.out.rec.link =
            IF HasEnclosureUrl(item) THEN item.enclosures[1].url.v
            ELSE IF item.link.some THEN Strip(item.link.v)
            ELSE <<>>

\* C5 witness: an item with a non-empty <link> and a different enclosure url.
C5_Witness ==
    /\ mapped.done /\ ~mapped.out.raised
    /\ item.link = Some(<<"m", " ">>)
    /\ HasEnclosureUrl(item)
    /\ item.enclosures[1].url.v = <<"m", "m">>
    /\ mapped.out.rec.link = <<"m", "m">>

\* Every character of s is a digit, as str.isdigit() reads it.
AllDigits(s) == s # <<>> /\ \A i \in 1..Len(s) : s[i] \in {"5", "SUP2"}

\* C6: for a 2xx response with a well-formed body search returns, with one
\* record per item, whatever the length and value attributes are; and
\* size_bytes is set exactly when length is present and all digits.
C6_CoercionNeverFails ==
    \A c \in Callers :
        (/\ calls[c].op = "search" /\ Finished(c)
         /\ calls[c].resp.kind = "http"
         /\ calls[c].resp.status \in 200..299
         /\ calls[c].resp.body.some) =>
            /\ calls[c].out.kind = "returned"
            /\ Len(calls[c].out.value) = Len(ItemsOf(calls[c].resp.body.v))
            /\ \A k \in 1..Len(calls[c].out.value) :
                  LET it == ItemsOf(calls[c].resp.body.v)[k]
                  IN  calls[c].out.value[k].size_bytes.some <=>
                        /\ Len(it.enclosures) > 0
                        /\ it.enclosures[1].length.some
                        /\ AllDigits(it.enclosures[1].length.v)

\* The positions of the item's children that are attr elements named seeders.
SeedersAt(it) ==
    {i \in 1..Len(it.children) :
        /\ it.children[i].tag \in {"attr", "{torznab}attr"}
        /\ it.children[i].name = Some("seeders")}

\* int() of the value attribute of the child at position i.
ValueAt(it, i) == IntParse(OrEmpty(it.children[i].value))

Last(S) == CHOOSE i \in S : \A j \in S : j <= i

\* C7 as stated: with several seeders attrs, seeders is what the last of
\* them gives: its value as an integer, or absent when that does not parse.
C7_LastSeedersAttrDecides ==
    (mapped.done /\ ~mapped.out.raised /\ Cardinality(SeedersAt(item)) > 1) =>
        mapped.out.rec.seeders =
            IF ValueAt(item, Last(SeedersAt(item))).ok
            THEN Some(ValueAt(item, Last(SeedersAt(item))).val)
            ELSE Absent

\* C7 amended: seeders is the value of the last seeders attr whose value
\* parses as an integer, and absent when none parses.
C7_LastParsableSeedersAttrDecides ==
    (mapped.done /\ ~mapped.out.raised) =>
        LET parsable == {i \in SeedersAt(item) : ValueAt(item, i).ok}
        IN  mapped.out.rec.seeders =
                IF parsable = {} THEN Absent
                ELSE Some(ValueAt(item, Last(parsable)).val)

\* C7 witness: two seeders attrs with different integers; the second one's
\* is the result.
C7_Witness ==
    /\ mapped.done /\ ~mapped.out.raised
    /\ SeedersAt(item) = {1, 2}
    /\ ValueAt(item, 1) = [ok |-> TRUE, val |-> 5]
    /\ ValueAt(item, 2) = [ok |-> TRUE, val |-> 55]
    /\ mapped.out.rec.seeders = Some(55)

\* The search calls that have returned a sequence for a query with a title.
ReturnedSearches ==
    {c \in Callers :
        /\ calls[c].op = "search" /\ Finished(c)
        /\ calls[c].out.kind = "returned"
        /\ ~TitleMissingOrEmpty(calls[c].query)}

\* C8: what search returns has one record per item element of the served
\* document, in document order; searches of the same document return the
\* same sequence; a document without items gives the empty sequence.
C8_OneRecordPerItemInOrder ==
    /\ \A c \in ReturnedSearches :
          LET its == ItemsOf(feed)
              got == calls[c].out.value
          IN  /\ Len(got) = Len(its)
              /\ \A k \in 1..Len(its) : got[k] = MapItem(its[k]).rec
              /\ its = <<>> => got = <<>>
    /\ \A c, d \in ReturnedSearches : calls[c].out.value = calls[d].out.value

\* C8 witness: both callers have searched a document of two different items
\* and have their results.
C8_Witness ==
    /\ ReturnedSearches = Callers
    /\ Len(ItemsOf(feed)) = 2
    /\ feed[1] # feed[2]
    /\ calls["c1"].out.value[1] # calls["c1"].out.value[2]

\* C9: in every record, size_bytes and seeders are absent or at least 0.
C9_CountsNonNegative ==
    (mapped.done /\ ~mapped.out.raised) =>
        /\ mapped.out.rec.size_bytes.some => mapped.out.rec.size_bytes.v >= 0
        /\ mapped.out.rec.seeders.some => mapped.out.rec.seeders.v >= 0

\* on_enable can read both settings, and both are non-empty once trimmed.
StoredSettingsComplete ==
    /\ ctx.settings_get
    /\ settings.base_url.some /\ Strip(settings.base_url.v) # <<>>
    /\ settings.api_key.some /\ Strip(settings.api_key.v) # <<>>

\* This step is an invocation of on_enable.
OnEnableInvoked == plugin'.n = plugin.n + 1 /\ plugin'.last = "on_enable"

\* This step is on_enable going on after caps_ok returned False.
OnEnableProbeFalse ==
    /\ plugin.hook = "on_enable" /\ plugin'.hook = "none"
    /\ calls[PluginCaller].out = Returned(FALSE)

\* register_search_provider is invoked, if at all, once, inside an on_enable
\* whose settings are complete and whose caps_ok returned True.
RegistersOnlyWhenProbed ==
    provider' # provider =>
        /\ provider' = provider + 1
        /\ plugin.hook = "on_enable" /\ plugin'.hook = "none"
        /\ StoredSettingsComplete
        /\ calls[PluginCaller].op = "caps_ok"
        /\ calls[PluginCaller].pc = "done"
        /\ calls[PluginCaller].out = Returned(TRUE)

\* C10 as stated: the provider is registered only inside an on_enable with
\* complete settings and a true probe; with incomplete settings or a false
\* probe on_enable registers nothing and sends a notification.
C10_RegisterOnlyAfterProbe ==
    [][/\ RegistersOnlyWhenProbed
       /\ (OnEnableInvoked /\ ~StoredSettingsComplete) =>
             /\ provider' = provider /\ plugin'.hook = "none"
             /\ notices' = Append(notices, "not_configured")
       /\ OnEnableProbeFalse =>
             /\ provider' = provider
             /\ notices' = Append(notices, "caps_failed")]_vars

\* C10 amended: as stated, except that the notification is sent when ctx
\* offers a callable notify, and dropped when it does not.
C10_RegisterOnlyAfterProbeNotifyIfOffered ==
    [][/\ RegistersOnlyWhenProbed
       /\ (OnEnableInvoked /\ ~StoredSettingsComplete) =>
             /\ provider' = provider /\ plugin'.hook = "none"
             /\ notices' = IF ctx.notify
                           THEN Append(notices, "not_configured") ELSE notices
       /\ OnEnableProbeFalse =>
             /\ provider' = provider
             /\ notices' = IF ctx.notify
                           THEN Append(notices, "caps_failed") ELSE notices]_vars

\* C10 witness: on_enable has declined once for incomplete settings and once
\* for a false probe, and a later on_enable has registered the provider.
C10_Witness ==
    /\ provider = 1
    /\ notices = <<"not_configured", "installed", "caps_failed", "enabled">>

====
